---- MODULE Spec2Model ----
(***************************************************************************)
(* Model of the Triplit -> TanStack DB collection adapter                  *)
(* (src/src/options.ts, createTriplitCollectionOptions).                   *)
(*                                                                         *)
(* Six specifications share the module:                                    *)
(*   Spec     one sync session: the fetch/subscribe race, reconcileSnapshot*)
(*            and the cleanup function returned by syncFn;                 *)
(*   SpecMut  the mutation handlers onInsert / onUpdate / onDelete;        *)
(*   SpecAll  one session and one handler invocation side by side;        *)
(*   SpecOpt  the session next to optimistic mutations of the application. *)
(*   SpecTwo  two sessions of the same options, each with its own closure; *)
(*   SpecCfg  createTriplitCollection (src/index.ts): the configuration    *)
(*            object handed to createCollection.                           *)
(***************************************************************************)
EXTENDS Integers, Sequences, FiniteSets, TLC

VARIABLES
    \* ---- configuration (options.ts:44) ----
    hasOnError,   \* whether the optional onError observer was supplied
    \* ---- one sync session (closure of syncFn, options.ts:50-125) ----
    pc,           \* "init" before sync() is called, "running" afterwards
    state,        \* collection.state.values(): the replica, in Map order
    isReady,      \* let isReady (options.ts:53)
    fetchSt,      \* the promise of client.fetch: "none" | "pending" | "resolved" | "rejected"
    calls,        \* calls made to begin/write/commit/markReady/onError by the last step
    lastEv,       \* which handler ran last
    lastSnap,     \* the snapshot handed to the last handler
    lastErr,      \* the error handed to the last handler
    preState,     \* the replica as the last handler found it
    threw,        \* the last handler let an exception escape to its caller
    nMarkReady,   \* how often markReady() has been called
    nOnError,     \* how often onError() has been called by the session
    nData,        \* subscription data deliveries so far
    nSubErr,      \* subscription error deliveries so far
    nUnsub,       \* how often unsubscribeFromTriplit() has been called
    nBegin,       \* how often begin() has been called
    nCommit,      \* how often commit() has been called
    pending,      \* keys of local items with an unconfirmed optimistic mutation
    \* ---- mutation handlers (options.ts:127-166) ----
    hs,           \* per handler invocation: kind, batch, calls issued, promise,
                  \* and which remote call failed with which error
    inflight,     \* remote calls issued and not yet settled
    mutObs,       \* onError calls made by the handlers, in order
    \* ---- beside the session in focus ----
    other,        \* the closure of a second call of syncFn, out of focus
    made          \* createTriplitCollection: its options and what it hands
                  \* to createCollection

sessVars == <<pc, state, isReady, fetchSt, calls, lastEv, lastSnap, lastErr, preState,
              threw, nMarkReady, nOnError, nData, nSubErr, nUnsub,
              nBegin, nCommit, pending>>
mutVars  == <<hs, inflight, mutObs>>
auxVars  == <<other, made>>
vars     == <<hasOnError, sessVars, mutVars, auxVars>>

----------------------------------------------------------------------------
(* Bounds of the model *)

MaxLen        == 2   \* longest snapshot delivered
MaxDeliveries == 2   \* subscription data deliveries per session
MaxSubErrors  == 1   \* subscription error deliveries per session
MaxCleanups   == 1   \* calls of the cleanup function
MaxBatch      == 2   \* longest transaction.mutations

(* Small domains *)

BadKey  == 0                 \* an item on which the caller's getKey throws
Keys    == {1, 2}
Vals    == {"a", "b"}
Errors  == {"e1", "e2"}      \* transport / remote errors
KeyErr  == "getKeyThrew"     \* the exception thrown by getKey
UnsubErr == "unsubscribeThrew"   \* the exception thrown by unsubscribe
InvIds  == {1, 2}            \* concurrent handler invocations
MutKeys == {1, 12}           \* integer keys of one and of two digits

BadItem   == [key |-> BadKey, val |-> "a"]
\* key 1 occurs with either value, the other keys with one
GoodItems == {[key |-> 1, val |-> v] : v \in Vals}
             \cup {[key |-> k, val |-> "a"] : k \in Keys \ {1}}
Items     == GoodItems \cup {BadItem}
NoItem    == [key |-> -1, val |-> "-"]
SeqsUpTo(S, n) == UNION {[1..m -> S] : m \in 0..n}

\* A FetchResult: null/undefined, or a Map whose values() are the items.
\* Keys may repeat; an item getKey fails on sits last, behind the items
\* getKey accepts.
Snapshots == {[null |-> TRUE, items |-> <<>>]}
             \cup {[null |-> FALSE, items |-> s] : s \in SeqsUpTo(GoodItems, MaxLen)}
             \cup {[null |-> FALSE, items |-> Append(s, BadItem)] :
                      s \in SeqsUpTo(GoodItems, MaxLen - 1)}
NoSnap    == [null |-> TRUE, items |-> <<>>]

----------------------------------------------------------------------------
(* getKey, supplied by the caller *)

GetKey(item) == item.key
GetKeyThrows(item) == item.key = BadKey

Range(s) == {s[i] : i \in 1..Len(s)}

\* Array.from(results.values()) or [] when results is null/undefined
RemoteItems(results) == IF results.null THEN <<>> ELSE results.items

\* new Set(items.map(getKey)), as a set and in insertion order
KeySet(items) == {GetKey(items[i]) : i \in 1..Len(items)}

RECURSIVE KeyOrder(_)
KeyOrder(items) ==
    IF items = <<>> THEN <<>>
    ELSE LET front == KeyOrder(SubSeq(items, 1, Len(items) - 1))
             k     == GetKey(items[Len(items)])
         IN IF k \in Range(front) THEN front ELSE Append(front, k)

\* localItems.find(item => getKey(item) === key)
Find(items, key) ==
    LET idx == {i \in 1..Len(items) : GetKey(items[i]) = key}
    IN IF idx = {} THEN NoItem
       ELSE items[CHOOSE i \in idx : \A j \in idx : i <= j]

WriteOp(t, v) == [op |-> "write", type |-> t, value |-> v, err |-> "-"]
Call(name)    == [op |-> name, type |-> "-", value |-> NoItem, err |-> "-"]
ErrCall(e)    == [op |-> "onError", type |-> "-", value |-> NoItem, err |-> e]

\* variant: onError(e) without the optional chaining
Observe_Unguarded(e) == <<ErrCall(e)>>

\* the optional call onError?.(e)
Observe(e) == IF hasOnError THEN <<ErrCall(e)>> ELSE <<>>

\* variant: the delete loop is missing
DeleteOps_None(localItems, remoteItems) == <<>>

\* variant: the delete loop does not test remoteKeys.has(key)
DeleteOps_All(localItems, remoteItems) ==
    LET ks == KeyOrder(localItems)
    IN [i \in 1..Len(ks) |-> WriteOp("delete", Find(localItems, ks[i]))]

\* variant: once cleanup has run, local items are no longer deleted
DeleteOps_NotAfterCleanup(localItems, remoteItems) ==
    IF nUnsub > 0 THEN <<>>
    ELSE LET gone == SelectSeq(KeyOrder(localItems),
                               LAMBDA k : k \notin KeySet(remoteItems))
         IN [i \in 1..Len(gone) |-> WriteOp("delete", Find(localItems, gone[i]))]

\* the first loop of reconcileSnapshot
DeleteOps(localItems, remoteItems) ==
    LET gone  == SelectSeq(KeyOrder(localItems),
                           LAMBDA k : k \notin KeySet(remoteItems))
        found == SelectSeq(gone, LAMBDA k : Find(localItems, k) # NoItem)
    IN [i \in 1..Len(found) |-> WriteOp("delete", Find(localItems, found[i]))]

\* variant: items whose key is not local are skipped instead of inserted
UpsertOps_UpdatesOnly(localItems, remoteItems) ==
    LET known == SelectSeq(remoteItems, LAMBDA it : GetKey(it) \in KeySet(localItems))
    IN [i \in 1..Len(known) |-> WriteOp("update", known[i])]

\* variant: an item equal to the local one is not written
UpsertOps_SkipUnchanged(localItems, remoteItems) ==
    LET changed == SelectSeq(remoteItems, LAMBDA it : it \notin Range(localItems))
    IN [i \in 1..Len(changed) |->
           WriteOp(IF GetKey(changed[i]) \in KeySet(localItems)
                   THEN "update" ELSE "insert",
                   changed[i])]

\* variant: an item whose key is local is replaced by a delete and an insert
RECURSIVE UpsertOps_ReplaceOnUpdate(_, _)
UpsertOps_ReplaceOnUpdate(localItems, remoteItems) ==
    IF remoteItems = <<>> THEN <<>>
    ELSE (IF GetKey(Head(remoteItems)) \in KeySet(localItems)
          THEN <<WriteOp("delete", Find(localItems, GetKey(Head(remoteItems)))),
                 WriteOp("insert", Head(remoteItems))>>
          ELSE <<WriteOp("insert", Head(remoteItems))>>)
         \o UpsertOps_ReplaceOnUpdate(localItems, Tail(remoteItems))

\* variant: the test localKeys.has(key) is missing, every item is inserted
UpsertOps_InsertAlways(localItems, remoteItems) ==
    [i \in 1..Len(remoteItems) |-> WriteOp("insert", remoteItems[i])]

\* the second loop of reconcileSnapshot
UpsertOps(localItems, remoteItems) ==
    [i \in 1..Len(remoteItems) |->
        WriteOp(IF GetKey(remoteItems[i]) \in KeySet(localItems)
                THEN "update" ELSE "insert",
                remoteItems[i])]

\* variant: the two loops are swapped
ReconcileOps_UpsertsFirst(localItems, results) ==
    UpsertOps(localItems, RemoteItems(results))
      \o DeleteOps(localItems, RemoteItems(results))

\* the write() calls of one pass, in order
ReconcileOps(localItems, results) ==
    DeleteOps(localItems, RemoteItems(results))
      \o UpsertOps(localItems, RemoteItems(results))

\* variant: results.values() is called without the test for null
ReconcileThrows_OnNull(localItems, results) ==
    \/ results.null
    \/ \E i \in 1..Len(localItems) : GetKeyThrows(localItems[i])
    \/ \E i \in 1..Len(RemoteItems(results)) : GetKeyThrows(RemoteItems(results)[i])

\* getKey fails while localKeys / remoteKeys are being built
ReconcileThrows(localItems, results) ==
    \/ \E i \in 1..Len(localItems) : GetKeyThrows(localItems[i])
    \/ \E i \in 1..Len(RemoteItems(results)) : GetKeyThrows(RemoteItems(results)[i])

\* variant: commit() sits in a finally block
ReconcileCalls_CommitAlways(localItems, results) ==
    IF ReconcileThrows(localItems, results)
    THEN <<Call("begin"), Call("commit")>>
    ELSE <<Call("begin")>> \o ReconcileOps(localItems, results) \o <<Call("commit")>>

\* variant: keys are computed inside the loops, so the items in front of
\* the one getKey fails on are written before the pass aborts
ReconcileCalls_LazyKeys(localItems, results) ==
    IF ReconcileThrows(localItems, results)
    THEN <<Call("begin")>>
           \o UpsertOps(SelectSeq(localItems, LAMBDA it : ~GetKeyThrows(it)),
                        SelectSeq(RemoteItems(results), LAMBDA it : ~GetKeyThrows(it)))
    ELSE <<Call("begin")>> \o ReconcileOps(localItems, results) \o <<Call("commit")>>

\* every call reconcileSnapshot makes on the sync params
ReconcileCalls(localItems, results) ==
    IF ReconcileThrows(localItems, results)
    THEN <<Call("begin")>>
    ELSE <<Call("begin")>> \o ReconcileOps(localItems, results) \o <<Call("commit")>>

\* The collection applying one committed write to its keyed state.
ApplyOp(items, w) ==
    LET k == GetKey(w.value)
    IN IF w.type = "delete"
       THEN SelectSeq(items, LAMBDA it : GetKey(it) # k)
       ELSE IF k \in KeySet(items)
            THEN [i \in 1..Len(items) |->
                     IF GetKey(items[i]) = k THEN w.value ELSE items[i]]
            ELSE Append(items, w.value)

RECURSIVE ApplyOps(_, _)
ApplyOps(items, ws) ==
    IF ws = <<>> THEN items
    ELSE ApplyOps(ApplyOp(items, Head(ws)), Tail(ws))

\* the replica after the pass: unchanged when the pass never commits
Reconciled(localItems, results) ==
    IF ReconcileThrows(localItems, results) THEN localItems
    ELSE ApplyOps(localItems, ReconcileOps(localItems, results))

----------------------------------------------------------------------------
(* The sync session *)

SessInit ==
    /\ pc = "init"
    /\ state = <<>>
    /\ isReady = FALSE
    /\ fetchSt = "none"
    /\ calls = <<>>
    /\ lastEv = "none"
    /\ lastSnap = NoSnap
    /\ lastErr = "-"
    /\ preState = <<>>
    /\ threw = FALSE
    /\ nMarkReady = 0
    /\ nOnError = 0
    /\ nData = 0
    /\ nSubErr = 0
    /\ nUnsub = 0
    /\ nBegin = 0
    /\ nCommit = 0
    /\ pending = {}

MutIdle ==
    /\ hs = [i \in InvIds |-> [kind |-> "none", batch |-> <<>>, issued |-> <<>>,
                               st |-> "idle", err |-> "-",
                               failedAt |-> 0, remoteErr |-> "-"]]
    /\ inflight = {}
    /\ mutObs = <<>>

\* a session whose syncFn has not been called yet, as a record
Fresh ==
    [pc |-> "init", state |-> <<>>, isReady |-> FALSE, fetchSt |-> "none",
     calls |-> <<>>, lastEv |-> "none", lastSnap |-> NoSnap, lastErr |-> "-",
     preState |-> <<>>, threw |-> FALSE, nMarkReady |-> 0, nOnError |-> 0,
     nData |-> 0, nSubErr |-> 0, nUnsub |-> 0, nBegin |-> 0, nCommit |-> 0,
     pending |-> {}]

NotMade == [options |-> <<>>, config |-> <<>>]

AuxInit ==
    /\ other = Fresh
    /\ made = NotMade

Init ==
    /\ hasOnError \in BOOLEAN
    /\ SessInit
    /\ MutIdle
    /\ AuxInit

CountOf(cs, name) == Cardinality({i \in 1..Len(cs) : cs[i].op = name})

\* bookkeeping shared by all session handlers
Record(ev, snap, e, cs, exc) ==
    /\ lastEv' = ev
    /\ lastSnap' = snap
    /\ lastErr' = e
    /\ preState' = state
    /\ calls' = cs
    /\ threw' = exc
    /\ nMarkReady' = nMarkReady + CountOf(cs, "markReady")
    /\ nOnError' = nOnError + CountOf(cs, "onError")
    /\ nBegin' = nBegin + CountOf(cs, "begin")
    /\ nCommit' = nCommit + CountOf(cs, "commit")

\* variant: syncFn refuses to start while another session of the same
\* options holds a subscription
Start_Exclusive ==
    /\ pc = "init"
    /\ ~(other.pc = "running" /\ other.nUnsub = 0)
    /\ pc' = "running"
    /\ fetchSt' = "pending"
    /\ Record("start", NoSnap, "-", <<Call("fetch"), Call("subscribe")>>, FALSE)
    /\ UNCHANGED <<state, isReady, nData, nSubErr, nUnsub, pending>>

\* syncFn: client.fetch(query) then client.subscribe(query, ...)
Start ==
    /\ pc = "init"
    /\ pc' = "running"
    /\ fetchSt' = "pending"
    /\ Record("start", NoSnap, "-", <<Call("fetch"), Call("subscribe")>>, FALSE)
    /\ UNCHANGED <<state, isReady, nData, nSubErr, nUnsub, pending>>

\* variant: the early return on isReady is missing
FetchThenCalls_NoGuard(ready, localItems, results) ==
    IF ReconcileThrows(localItems, results)
    THEN ReconcileCalls(localItems, results) \o Observe(KeyErr)
    ELSE ReconcileCalls(localItems, results) \o <<Call("markReady")>>

\* variant: the cleanup function cancels the fetch
FetchThenCalls_Cancelled(ready, localItems, results) ==
    IF ready \/ nUnsub > 0 THEN <<>>
    ELSE IF ReconcileThrows(localItems, results)
         THEN ReconcileCalls(localItems, results) \o Observe(KeyErr)
         ELSE ReconcileCalls(localItems, results) \o <<Call("markReady")>>

\* variant: readiness is signalled inside the begin ... commit bracket
FetchThenCalls_ReadyInside(ready, localItems, results) ==
    IF ready THEN <<>>
    ELSE IF ReconcileThrows(localItems, results)
         THEN ReconcileCalls(localItems, results) \o Observe(KeyErr)
         ELSE <<Call("begin")>> \o ReconcileOps(localItems, results)
                \o <<Call("markReady"), Call("commit")>>

\* .then((initialResults) => ...) followed by .catch for what it throws
FetchThenCalls(ready, localItems, results) ==
    IF ready THEN <<>>
    ELSE IF ReconcileThrows(localItems, results)
         THEN ReconcileCalls(localItems, results) \o Observe(KeyErr)
         ELSE ReconcileCalls(localItems, results) \o <<Call("markReady")>>

\* variant: the early return only guards markReady, the late fetch result
\* is still reconciled
FetchThenState_Reverts(ready, localItems, results) ==
    Reconciled(localItems, results)

FetchThenState(ready, localItems, results) ==
    IF ready THEN localItems ELSE Reconciled(localItems, results)

\* variant: the flag is set before the fetch result is reconciled
FetchThenReady_SetFirst(ready, localItems, results) == TRUE

FetchThenReady(ready, localItems, results) ==
    IF ready THEN TRUE ELSE ~ReconcileThrows(localItems, results)

FetchResolve(results) ==
    /\ pc = "running"
    /\ fetchSt = "pending"
    /\ fetchSt' = "resolved"
    /\ state' = FetchThenState(isReady, state, results)
    /\ isReady' = FetchThenReady(isReady, state, results)
    /\ Record("fetchOk", results, "-", FetchThenCalls(isReady, state, results), FALSE)
    /\ UNCHANGED <<pc, nData, nSubErr, nUnsub, pending>>

\* variant: the catch block also signals readiness
FetchCatchCalls_MarksReady(e) == Observe(e) \o <<Call("markReady")>>

\* variant: the catch block fetches again
FetchCatchCalls_Retries(e) == Observe(e) \o <<Call("fetch")>>

\* .catch((err) => ...) of a rejected fetch
FetchCatchCalls(e) == Observe(e)

FetchReject(e) ==
    /\ pc = "running"
    /\ fetchSt = "pending"
    /\ fetchSt' = "rejected"
    /\ Record("fetchErr", NoSnap, e, FetchCatchCalls(e), FALSE)
    /\ UNCHANGED <<pc, state, isReady, nData, nSubErr, nUnsub, pending>>

\* variant: markReady() is not guarded by isReady
SubDataCalls_AlwaysReady(ready, localItems, results) ==
    IF ReconcileThrows(localItems, results)
    THEN ReconcileCalls(localItems, results)
    ELSE ReconcileCalls(localItems, results) \o <<Call("markReady")>>

\* variant: deliveries are ignored once cleanup has run
SubDataCalls_StoppedByCleanup(ready, localItems, results) ==
    IF nUnsub > 0 THEN <<>>
    ELSE IF ReconcileThrows(localItems, results)
         THEN ReconcileCalls(localItems, results)
         ELSE ReconcileCalls(localItems, results)
                \o (IF ready THEN <<>> ELSE <<Call("markReady")>>)

\* variant: readiness is signalled on arrival, before the snapshot is
\* reconciled
SubDataCalls_ReadyFirst(ready, localItems, results) ==
    (IF ready THEN <<>> ELSE <<Call("markReady")>>)
      \o ReconcileCalls(localItems, results)

\* the data callback handed to client.subscribe
SubDataCalls(ready, localItems, results) ==
    IF ReconcileThrows(localItems, results)
    THEN ReconcileCalls(localItems, results)
    ELSE ReconcileCalls(localItems, results)
           \o (IF ready THEN <<>> ELSE <<Call("markReady")>>)

SubDataReady(ready, localItems, results) ==
    IF ReconcileThrows(localItems, results) THEN ready ELSE TRUE

SubData(results) ==
    /\ pc = "running"
    /\ nData < MaxDeliveries
    /\ nData' = nData + 1
    /\ state' = Reconciled(state, results)
    /\ isReady' = SubDataReady(isReady, state, results)
    /\ Record("subData", results, "-", SubDataCalls(isReady, state, results),
              ReconcileThrows(state, results))
    /\ UNCHANGED <<pc, fetchSt, nSubErr, nUnsub, pending>>

\* variant: the error is only logged, the observer is not told
SubErrorCalls_Silent(e) == <<>>

\* the error callback handed to client.subscribe
SubErrorCalls(e) == Observe(e)

SubError(e) ==
    /\ pc = "running"
    /\ nSubErr < MaxSubErrors
    /\ nSubErr' = nSubErr + 1
    /\ Record("subErr", NoSnap, e, SubErrorCalls(e), FALSE)
    /\ UNCHANGED <<pc, state, isReady, fetchSt, nData, nUnsub, pending>>

\* variant: cleanup wraps the unsubscribe call in try/catch
CleanupThrows_Swallowed(unsubThrows) == FALSE

\* variant: cleanup also signals readiness
CleanupCalls_MarksReady == <<Call("unsubscribe"), Call("markReady")>>

\* variant: cleanup also commits an empty batch to flush the collection
CleanupCalls_Flushes == <<Call("unsubscribe"), Call("begin"), Call("commit")>>

\* the cleanup function: unsubscribeFromTriplit?.(), which may throw
CleanupCalls == <<Call("unsubscribe")>>
CleanupThrows(unsubThrows) == unsubThrows

Cleanup(unsubThrows) ==
    /\ pc = "running"
    /\ nUnsub < MaxCleanups
    /\ nUnsub' = nUnsub + CountOf(CleanupCalls, "unsubscribe")
    /\ Record("cleanup", NoSnap, IF unsubThrows THEN UnsubErr ELSE "-",
              CleanupCalls, CleanupThrows(unsubThrows))
    /\ UNCHANGED <<pc, state, isReady, fetchSt, nData, nSubErr, pending>>

Next ==
    \/ Start /\ UNCHANGED <<hasOnError, mutVars, auxVars>>
    \/ (\E r \in Snapshots : FetchResolve(r)) /\ UNCHANGED <<hasOnError, mutVars, auxVars>>
    \/ (\E e \in Errors : FetchReject(e)) /\ UNCHANGED <<hasOnError, mutVars, auxVars>>
    \/ (\E r \in Snapshots : SubData(r)) /\ UNCHANGED <<hasOnError, mutVars, auxVars>>
    \/ (\E e \in Errors : SubError(e)) /\ UNCHANGED <<hasOnError, mutVars, auxVars>>
    \/ (\E b \in BOOLEAN : Cleanup(b)) /\ UNCHANGED <<hasOnError, mutVars, auxVars>>

Spec == Init /\ [][Next]_vars

----------------------------------------------------------------------------
(* The mutation handlers onInsert / onUpdate / onDelete *)

CollectionName == "todos"    \* query.collectionName
Kinds     == {"insert", "update", "delete"}
Mutations == {[key |-> k, modified |-> [id |-> k, val |-> "new"],
               changes |-> [id |-> -1, val |-> "chg"]] : k \in MutKeys}
NoData    == [id |-> -1, val |-> "-"]
Batches   == SeqsUpTo(Mutations, MaxBatch)

\* String(mutation.key) for a non-negative integer key
Digits == <<"0", "1", "2", "3", "4", "5", "6", "7", "8", "9">>
\* variant: only the last digit of the key is sent
KeyString_LastDigit(n) == Digits[(n % 10) + 1]

RECURSIVE KeyString(_)
KeyString(n) ==
    IF n < 10 THEN Digits[n + 1]
    ELSE KeyString(n \div 10) \o Digits[(n % 10) + 1]

\* the arguments of client.insert / client.update / client.delete
RemoteCall(kind, m) ==
    [op   |-> kind,
     ns   |-> CollectionName,
     id   |-> IF kind = "insert" THEN "-" ELSE KeyString(m.key),
     data |-> IF kind = "insert" THEN m.modified
              ELSE IF kind = "update" THEN m.changes ELSE NoData]

\* variant: the calls are not awaited one by one (Promise.all fan-out)
NextIssued_FanOut(batch, n) ==
    IF n = 0 THEN [j \in 1..Len(batch) |-> j] ELSE <<>>

\* variant: a call is issued only while no call of any invocation is pending
NextIssued_GlobalLock(batch, n) ==
    IF n < Len(batch) /\ (n = 0 => inflight = {}) THEN <<n + 1>> ELSE <<>>

\* positions of the batch whose remote call is issued once call n has
\* resolved (n = 0: on entry to the handler): the loop awaits every call
NextIssued(batch, n) == IF n < Len(batch) THEN <<n + 1>> ELSE <<>>

\* the promise of the async handler after call n has resolved
AfterResolve(batch, n) == IF n < Len(batch) THEN "awaiting" ELSE "resolved"

\* variant: the catch block does not rethrow
AfterReject_Swallowed(e) == "resolved"

\* the promise of the async handler after a call has rejected with e
AfterReject(e) == "rejected"

\* variant: the handler throws a new error in place of the caught one
CatchThrows_Wrapped(e) == "wrapped"

\* catch (error) { onError?.(error); throw error; }
CatchCalls(i, e) == IF hasOnError THEN <<[inv |-> i, err |-> e]>> ELSE <<>>
CatchThrows(e) == e

\* variant: a handler signals readiness itself
HandlerSyncCalls_MarksReady == <<Call("markReady")>>

\* calls a handler makes on begin/write/commit/markReady: none, the handlers
\* are built outside syncFn and never see its parameters
HandlerSyncCalls == <<>>

IssuedCalls(kind, batch, ps) ==
    [j \in 1..Len(ps) |-> RemoteCall(kind, batch[ps[j]])]

\* the collection calls a handler with transaction.mutations = batch
Invoke(i, kind, batch) ==
    /\ hs[i].st = "idle"
    /\ hs' = [hs EXCEPT ![i] =
                [kind |-> kind, batch |-> batch,
                 issued |-> IssuedCalls(kind, batch, NextIssued(batch, 0)),
                 st |-> AfterResolve(batch, 0), err |-> "-",
                 failedAt |-> 0, remoteErr |-> "-"]]
    /\ inflight' = inflight \cup {[inv |-> i, idx |-> n] : n \in Range(NextIssued(batch, 0))}
    /\ UNCHANGED mutObs
    /\ Record("invoke", NoSnap, "-", HandlerSyncCalls, FALSE)
    /\ UNCHANGED <<pc, state, isReady, fetchSt, nData, nSubErr, nUnsub, pending>>

\* a pending remote call resolves: the loop moves on
RemoteResolve(c) ==
    /\ c \in inflight
    /\ hs[c.inv].st = "awaiting"
    /\ hs' = [hs EXCEPT ![c.inv].issued =
                  @ \o IssuedCalls(hs[c.inv].kind, hs[c.inv].batch,
                                   NextIssued(hs[c.inv].batch, c.idx)),
              ![c.inv].st = AfterResolve(hs[c.inv].batch, c.idx)]
    /\ inflight' = (inflight \ {c})
                     \cup {[inv |-> c.inv, idx |-> n] :
                              n \in Range(NextIssued(hs[c.inv].batch, c.idx))}
    /\ UNCHANGED mutObs
    /\ Record("remoteOk", NoSnap, "-", HandlerSyncCalls, FALSE)
    /\ UNCHANGED <<pc, state, isReady, fetchSt, nData, nSubErr, nUnsub, pending>>

\* a pending remote call rejects with e: the catch block runs
RemoteReject(c, e) ==
    /\ c \in inflight
    /\ hs[c.inv].st = "awaiting"
    /\ hs' = [hs EXCEPT ![c.inv].st = AfterReject(e), ![c.inv].err = CatchThrows(e),
                         ![c.inv].failedAt = c.idx, ![c.inv].remoteErr = e]
    /\ inflight' = inflight \ {c}
    /\ mutObs' = mutObs \o CatchCalls(c.inv, e)
    /\ Record("remoteErr", NoSnap, e, HandlerSyncCalls, FALSE)
    /\ UNCHANGED <<pc, state, isReady, fetchSt, nData, nSubErr, nUnsub, pending>>

NextMut ==
    \/ (\E i \in InvIds, k \in Kinds, b \in Batches : Invoke(i, k, b))
         /\ UNCHANGED <<hasOnError, auxVars>>
    \/ (\E c \in inflight : RemoteResolve(c)) /\ UNCHANGED <<hasOnError, auxVars>>
    \/ (\E c \in inflight, e \in Errors : RemoteReject(c, e))
         /\ UNCHANGED <<hasOnError, auxVars>>

SpecMut == Init /\ [][NextMut]_vars

----------------------------------------------------------------------------
(* One session and one handler invocation side by side *)

\* snapshots of at most one item, batches of at most one mutation
FewSnapshots == {r \in Snapshots : Len(r.items) <= 1}
FewBatches   == {b \in Batches : Len(b) <= 1}

NextAll ==
    \/ Start /\ UNCHANGED <<hasOnError, mutVars, auxVars>>
    \/ (\E r \in FewSnapshots : FetchResolve(r)) /\ UNCHANGED <<hasOnError, mutVars, auxVars>>
    \/ (\E e \in Errors : FetchReject(e)) /\ UNCHANGED <<hasOnError, mutVars, auxVars>>
    \/ (\E r \in FewSnapshots : SubData(r)) /\ UNCHANGED <<hasOnError, mutVars, auxVars>>
    \/ (\E e \in Errors : SubError(e)) /\ UNCHANGED <<hasOnError, mutVars, auxVars>>
    \/ (\E b \in BOOLEAN : Cleanup(b)) /\ UNCHANGED <<hasOnError, mutVars, auxVars>>
    \/ (\E k \in Kinds, b \in FewBatches : Invoke(1, k, b)) /\ UNCHANGED <<hasOnError, auxVars>>
    \/ (\E c \in inflight : RemoteResolve(c)) /\ UNCHANGED <<hasOnError, auxVars>>
    \/ (\E c \in inflight, e \in Errors : RemoteReject(c, e)) /\ UNCHANGED <<hasOnError, auxVars>>

SpecAll == Init /\ [][NextAll]_vars

----------------------------------------------------------------------------
(* The session next to optimistic mutations of the application *)

\* collection.insert / collection.update by the application: the change
\* shows in collection.state at once and its key stays pending until the
\* remote confirms the mutation
OptimisticMutate(it) ==
    /\ pc = "running"
    /\ state' = ApplyOp(state, WriteOp("insert", it))
    /\ pending' = pending \cup {GetKey(it)}
    /\ Record("mutate", NoSnap, "-", <<>>, FALSE)
    /\ UNCHANGED <<pc, isReady, fetchSt, nData, nSubErr, nUnsub>>

\* the remote confirms the pending mutation of key k
Confirm(k) ==
    /\ k \in pending
    /\ pending' = pending \ {k}
    /\ Record("confirm", NoSnap, "-", <<>>, FALSE)
    /\ UNCHANGED <<pc, state, isReady, fetchSt, nData, nSubErr, nUnsub>>

NextOpt ==
    \/ Start /\ UNCHANGED <<hasOnError, mutVars, auxVars>>
    \/ (\E r \in Snapshots : FetchResolve(r)) /\ UNCHANGED <<hasOnError, mutVars, auxVars>>
    \/ (\E r \in Snapshots : SubData(r)) /\ UNCHANGED <<hasOnError, mutVars, auxVars>>
    \/ (\E it \in GoodItems : OptimisticMutate(it)) /\ UNCHANGED <<hasOnError, mutVars, auxVars>>
    \/ (\E k \in Keys : Confirm(k)) /\ UNCHANGED <<hasOnError, mutVars, auxVars>>

SpecOpt == Init /\ [][NextOpt]_vars

----------------------------------------------------------------------------
(* Two calls of syncFn, each with its own collection *)

\* the session in focus, as a record
Focused ==
    [pc |-> pc, state |-> state, isReady |-> isReady, fetchSt |-> fetchSt,
     calls |-> calls, lastEv |-> lastEv, lastSnap |-> lastSnap, lastErr |-> lastErr,
     preState |-> preState, threw |-> threw, nMarkReady |-> nMarkReady,
     nOnError |-> nOnError, nData |-> nData, nSubErr |-> nSubErr, nUnsub |-> nUnsub,
     nBegin |-> nBegin, nCommit |-> nCommit, pending |-> pending]

\* variant: the flag is declared outside syncFn and shared by all sessions
OwnFlag_Shared(leaving, entering) == leaving

\* let isReady inside syncFn: the handlers of the session entered see the
\* flag of their own closure, not the one of the session left
OwnFlag(leaving, entering) == entering

\* the event loop turns from the handlers of one session to those of the
\* other
Switch ==
    /\ other' = Focused
    /\ pc' = other.pc
    /\ state' = other.state
    /\ isReady' = OwnFlag(isReady, other.isReady)
    /\ fetchSt' = other.fetchSt
    /\ calls' = other.calls
    /\ lastEv' = other.lastEv
    /\ lastSnap' = other.lastSnap
    /\ lastErr' = other.lastErr
    /\ preState' = other.preState
    /\ threw' = other.threw
    /\ nMarkReady' = other.nMarkReady
    /\ nOnError' = other.nOnError
    /\ nData' = other.nData
    /\ nSubErr' = other.nSubErr
    /\ nUnsub' = other.nUnsub
    /\ nBegin' = other.nBegin
    /\ nCommit' = other.nCommit
    /\ pending' = other.pending

\* the snapshots the two sessions receive
TwoSnapshots == {[null |-> FALSE, items |-> <<it>>] :
                    it \in {[key |-> 1, val |-> "a"], [key |-> 2, val |-> "a"]}}

NextTwo ==
    \/ Start /\ UNCHANGED <<hasOnError, mutVars, auxVars>>
    \/ (\E r \in TwoSnapshots : FetchResolve(r)) /\ UNCHANGED <<hasOnError, mutVars, auxVars>>
    \/ (\E r \in TwoSnapshots : SubData(r)) /\ UNCHANGED <<hasOnError, mutVars, auxVars>>
    \/ Cleanup(FALSE) /\ UNCHANGED <<hasOnError, mutVars, auxVars>>
    \/ Switch /\ UNCHANGED <<hasOnError, mutVars, made>>

SpecTwo == Init /\ [][NextTwo]_vars

----------------------------------------------------------------------------
(* createTriplitCollection: the options handed on to createCollection *)

\* a JavaScript object is a function from its property names to values
Absent == "absent"

\* variant: the passthrough options are spread last
Spread_FirstWins(a, b) ==
    [f \in DOMAIN a \cup DOMAIN b |-> IF f \in DOMAIN a THEN a[f] ELSE b[f]]

\* { ...a, ...b }
Spread(a, b) ==
    [f \in DOMAIN a \cup DOMAIN b |-> IF f \in DOMAIN b THEN b[f] ELSE a[f]]

\* the properties createTriplitCollection takes out of its options
OwnFields == {"client", "query", "getKey", "onError"}
\* the properties createTriplitCollectionOptions returns
AdapterFields == {"getKey", "sync", "onInsert", "onUpdate", "onDelete"}

\* what a caller may put into the options next to client, query and getKey
OptionChoices ==
    [id : {Absent, "todos-1"}, schema : {Absent, "todoSchema"},
     rowUpdateMode : {Absent, "partial", "full"},
     onError : {Absent, "userOnError"},
     sync : {Absent, "userSync"}, onInsert : {Absent, "userOnInsert"},
     onUpdate : {Absent, "userOnUpdate"}, onDelete : {Absent, "userOnDelete"}]

Present(c) == [f \in {g \in DOMAIN c : c[g] # Absent} |-> c[f]]

FactoryOptions ==
    {Spread([client |-> "client", query |-> "query", getKey |-> "userGetKey"],
            Present(c)) : c \in OptionChoices}

\* const { client, query, getKey, onError, ...restConfig } = options
RestConfig(options) == [f \in DOMAIN options \ OwnFields |-> options[f]]

\* what createTriplitCollectionOptions returns for these options
TriplitAdapterOptions(options) ==
    [getKey |-> options["getKey"], sync |-> "adapterSync",
     onInsert |-> "adapterOnInsert", onUpdate |-> "adapterOnUpdate",
     onDelete |-> "adapterOnDelete"]

\* the argument of createCollection
CollectionConfig(options) ==
    Spread(RestConfig(options), TriplitAdapterOptions(options))

createTriplitCollection(options) ==
    /\ ("onError" \in DOMAIN options) <=> hasOnError
    /\ made' = [options |-> options, config |-> CollectionConfig(options)]
    /\ UNCHANGED <<hasOnError, sessVars, mutVars, other>>

NextCfg == \E o \in FactoryOptions : createTriplitCollection(o)

SpecCfg == Init /\ [][NextCfg]_vars

----------------------------------------------------------------------------
(* Properties of the sync session and of reconcileSnapshot *)

\* the write() calls among the calls of the last step
Writes(cs) == SelectSeq(cs, LAMBDA c : c.op = "write")
WriteTypes(cs) == {Writes(cs)[i].type : i \in 1..Len(Writes(cs))}
OpsFor(cs, k) == SelectSeq(Writes(cs), LAMBDA w : GetKey(w.value) = k)
ItemsFor(items, k) == SelectSeq(items, LAMBDA it : GetKey(it) = k)
DistinctKeys(items) ==
    \A i, j \in 1..Len(items) : i # j => GetKey(items[i]) # GetKey(items[j])

\* the last step was a reconciliation pass that reached commit()
PassCommitted ==
    /\ lastEv \in {"fetchOk", "subData"}
    /\ CountOf(calls, "commit") = 1

\* the items of the snapshot the last step received
SnapItems == RemoteItems(lastSnap)

\* a step in which the fetch promise resolves / a snapshot is delivered
FetchResolves == fetchSt = "pending" /\ fetchSt' = "resolved"
FetchRejects  == fetchSt = "pending" /\ fetchSt' = "rejected"
DataDelivered == nData' = nData + 1
ErrorDelivered == nSubErr' = nSubErr + 1

\* C1 (state part): markReady has been called at most once, exactly when
\* the session is ready, and it has been called once a fetch result or a
\* subscription snapshot has been reconciled.
C1_ReadyState ==
    /\ nMarkReady <= 1
    /\ isReady <=> (nMarkReady = 1)
    /\ (lastEv \in {"fetchOk", "subData"} /\ ~ReconcileThrows(preState, lastSnap))
          => (isReady /\ nMarkReady = 1)

\* C1: across every interleaving of fetch resolution, fetch rejection,
\* subscription data and subscription errors, markReady is invoked at most
\* once, it is invoked in the very step that first reconciles data from
\* either source, and readiness is never withdrawn afterwards.
C1_ReadinessOnce ==
    /\ []C1_ReadyState
    /\ [][/\ isReady => (isReady' /\ nMarkReady' = nMarkReady)
          /\ (~isReady /\ isReady') => CountOf(calls', "markReady") = 1]_vars

\* C1 witness: the fetch has resolved and two snapshots were delivered, the
\* last one reconciled, and markReady was called once in all.
C1_Witness ==
    /\ fetchSt = "resolved"
    /\ nData = 2
    /\ lastEv = "subData"
    /\ PassCommitted
    /\ nMarkReady = 1

\* C3: applying the operations written by one committed pass to the replica
\* the pass started from (delete removes the key, insert/update set it)
\* yields exactly the key set of the snapshot.
C3_Convergence ==
    PassCommitted =>
        KeySet(ApplyOps(preState, Writes(calls))) = KeySet(SnapItems)

\* C3 witness: a committed pass replaced the replica's key by another one,
\* writing a delete and an insert.
C3_Witness ==
    /\ PassCommitted
    /\ preState # <<>>
    /\ WriteTypes(calls) = {"delete", "insert"}

\* C4: whenever a reconciliation has just succeeded, after any sequence of
\* fetch results and deliveries, the replica holds exactly the keys of the
\* snapshot just reconciled, each once.
C4_ReplicaMatchesSnapshot ==
    PassCommitted =>
        /\ KeySet(state) = KeySet(SnapItems)
        /\ Len(state) = Cardinality(KeySet(SnapItems))

\* C4 witness: the second delivery of a session whose fetch resolved changed
\* the key set of a non-empty replica to another non-empty one.
C4_Witness ==
    /\ PassCommitted
    /\ nData = 2
    /\ fetchSt = "resolved"
    /\ preState # <<>>
    /\ state # <<>>
    /\ KeySet(state) # KeySet(preState)

\* C5 as stated: a fetch that resolves when the session is already ready is
\* still reconciled (one begin ... commit pass) without a second markReady.
C5_LateFetchReconciled ==
    [][(isReady /\ FetchResolves /\ ~ReconcileThrows(state, lastSnap'))
          => /\ CountOf(calls', "begin") = 1
             /\ CountOf(calls', "commit") = 1
             /\ nMarkReady' = nMarkReady]_vars

\* C5 amended: a fetch that resolves when the session is already ready is
\* dropped: no begin, write, commit or markReady, replica unchanged.
C5_LateFetchDropped ==
    [][(isReady /\ FetchResolves)
          => /\ calls' = <<>>
             /\ state' = state
             /\ isReady'
             /\ nMarkReady' = nMarkReady]_vars

\* C5 witness: after a delivery the fetch resolved with a snapshot of other
\* keys than the replica holds, and nothing was called.
C5_Witness ==
    /\ lastEv = "fetchOk"
    /\ nData >= 1
    /\ nMarkReady = 1
    /\ calls = <<>>
    /\ ~lastSnap.null
    /\ KeySet(SnapItems) # KeySet(state)

\* what the session calls for a transport fault e: the observer, if any
ObserverOnly(e) == IF hasOnError THEN <<ErrCall(e)>> ELSE <<>>

\* C6: a rejected fetch is not fatal: that step calls the observer (when one
\* is configured) exactly once with the fetch error and nothing else, leaves
\* replica, readiness and subscription alone, and the first snapshot the
\* subscription delivers afterwards is reconciled and signals readiness
\* exactly once.
C6_FetchRejectNonFatal ==
    /\ [](lastEv = "fetchErr" =>
            /\ calls = ObserverOnly(lastErr)
            /\ lastErr \in Errors
            /\ state = preState
            /\ pc = "running"
            /\ ~threw)
    /\ [][/\ FetchRejects =>
               /\ isReady' = isReady
               /\ state' = state
               /\ nMarkReady' = nMarkReady
               /\ nUnsub' = nUnsub
               /\ nOnError' = nOnError + (IF hasOnError THEN 1 ELSE 0)
          /\ (fetchSt = "rejected" /\ ~isReady /\ DataDelivered
                /\ ~ReconcileThrows(state, lastSnap')) =>
               /\ CountOf(calls', "begin") = 1
               /\ CountOf(calls', "commit") = 1
               /\ CountOf(calls', "markReady") = 1
               /\ nMarkReady' = 1
               /\ KeySet(state') = KeySet(RemoteItems(lastSnap'))]_vars

\* C6 witness: the fetch was rejected, then the subscription delivered the
\* single item of key 1 into the empty replica: one observer call, one
\* markReady, a single insert.
C6_Witness ==
    /\ hasOnError
    /\ fetchSt = "rejected"
    /\ lastEv = "subData"
    /\ nData = 1
    /\ nSubErr = 0
    /\ nOnError = 1
    /\ nMarkReady = 1
    /\ calls = <<Call("begin"), WriteOp("insert", [key |-> 1, val |-> "a"]),
                 Call("commit"), Call("markReady")>>

\* C7: a subscription error delivery calls the observer (when configured)
\* with that error and does nothing else: no begin/write/commit/markReady,
\* readiness, replica, fetch and subscription untouched; snapshots delivered
\* after an error are still reconciled.
C7_SubErrorOnlyObserved ==
    /\ [](lastEv = "subErr" =>
            /\ calls = ObserverOnly(lastErr)
            /\ lastErr \in Errors
            /\ state = preState
            /\ ~threw)
    /\ [][/\ ErrorDelivered =>
               /\ UNCHANGED <<pc, state, isReady, fetchSt, nMarkReady, nUnsub, nData>>
               /\ nOnError' = nOnError + (IF hasOnError THEN 1 ELSE 0)
          /\ (nSubErr >= 1 /\ DataDelivered) =>
               /\ CountOf(calls', "begin") = 1
               /\ ~ReconcileThrows(state, lastSnap') =>
                    /\ CountOf(calls', "commit") = 1
                    /\ KeySet(state') = KeySet(RemoteItems(lastSnap'))
                    /\ isReady']_vars

\* C7 witness: an error was delivered and observed, and a snapshot delivered
\* after it was reconciled into the replica.
C7_Witness ==
    /\ hasOnError
    /\ nSubErr = 1
    /\ nOnError >= 1
    /\ lastEv = "subData"
    /\ PassCommitted
    /\ state # <<>>
    /\ state # preState

\* C9 as stated: the operations written by one pass never hold two
\* operations for the same key.
C9_OneOpPerKey ==
    PassCommitted =>
        \A i, j \in 1..Len(Writes(calls)) :
            i # j => GetKey(Writes(calls)[i].value) # GetKey(Writes(calls)[j].value)

\* C9 amended: when the snapshot's items have pairwise distinct keys, the
\* operations written by one pass never hold two operations for the same
\* key.
C9_OneOpPerKeyIfDistinct ==
    (PassCommitted /\ DistinctKeys(SnapItems)) =>
        \A i, j \in 1..Len(Writes(calls)) :
            i # j => GetKey(Writes(calls)[i].value) # GetKey(Writes(calls)[j].value)

\* C9 witness: a snapshot of distinct keys against a replica of two items
\* produced one operation for each of the two keys, a delete and an update.
C9_Witness ==
    /\ PassCommitted
    /\ DistinctKeys(SnapItems)
    /\ Len(preState) = 2
    /\ Len(Writes(calls)) = 2
    /\ WriteTypes(calls) = {"delete", "update"}

\* C10 as stated: per key, exactly one delete with the local item (key only
\* local), exactly one update with the snapshot's item (key in both), exactly
\* one insert with the snapshot's item (key only in the snapshot).
C10_OnePerKeyClassified ==
    PassCommitted =>
        \A k \in Keys :
            LET ops    == OpsFor(calls, k)
                local  == k \in KeySet(preState)
                remote == k \in KeySet(SnapItems)
            IN /\ (local /\ ~remote) =>
                      ops = <<WriteOp("delete", Find(preState, k))>>
               /\ remote =>
                      /\ Len(ops) = 1
                      /\ ops[1].type = (IF local THEN "update" ELSE "insert")
                      /\ ops[1].value \in Range(ItemsFor(SnapItems, k))
               /\ (~local /\ ~remote) => ops = <<>>

\* C10 amended: a key only local yields exactly one delete carrying the local
\* item; every snapshot item yields exactly one operation carrying it, in
\* snapshot order: an update when its key is local (whether or not the value
\* changed), an insert otherwise; no other operation is written.
C10_OnePerItemClassified ==
    PassCommitted =>
        \A k \in Keys :
            LET ops    == OpsFor(calls, k)
                local  == k \in KeySet(preState)
                remote == k \in KeySet(SnapItems)
                its    == ItemsFor(SnapItems, k)
            IN /\ (local /\ ~remote) =>
                      ops = <<WriteOp("delete", Find(preState, k))>>
               /\ remote =>
                      ops = [i \in 1..Len(its) |->
                                WriteOp(IF local THEN "update" ELSE "insert", its[i])]
               /\ (~local /\ ~remote) => ops = <<>>

\* C10 witness: one pass deleted a local item and updated the other key
\* with the very item the replica already held.
C10_Witness ==
    /\ PassCommitted
    /\ WriteTypes(calls) = {"delete", "update"}
    /\ \E i \in 1..Len(Writes(calls)) :
          /\ Writes(calls)[i].type = "update"
          /\ Writes(calls)[i].value \in Range(preState)

----------------------------------------------------------------------------
(* Properties of the mutation handlers *)

\* remote calls of invocation i still pending / observer calls it made
InFlightOf(i) == {c \in inflight : c.inv = i}
ObservedBy(i) == SelectSeq(mutObs, LAMBDA o : o.inv = i)

\* C2 (state part): once the K-th remote call of a batch has failed, exactly
\* the calls 1..K were issued, the promise is rejected with the remote's
\* error and the observer, when configured, was called once with that error.
C2_RejectedState ==
    \A i \in InvIds :
        hs[i].st = "rejected" =>
            /\ hs[i].failedAt \in 1..Len(hs[i].batch)
            /\ Len(hs[i].issued) = hs[i].failedAt
            /\ InFlightOf(i) = {}
            /\ hs[i].remoteErr \in Errors
            /\ hs[i].err = hs[i].remoteErr
            /\ ObservedBy(i) = (IF hasOnError
                                THEN <<[inv |-> i, err |-> hs[i].remoteErr]>>
                                ELSE <<>>)

\* C2: if the K-th remote call of a batch fails, the calls K+1..N are never
\* issued, the returned promise rejects with the same error, and the observer
\* is invoked exactly once with it; nothing of that invocation changes later.
C2_FailurePropagation ==
    /\ []C2_RejectedState
    /\ [][\A i \in InvIds :
             hs[i].st = "rejected" =>
                 /\ hs'[i] = hs[i]
                 /\ ObservedBy(i)' = ObservedBy(i)]_vars

\* C2 witness: with an observer configured, the first call of a batch of two
\* failed, leaving the second never issued.
C2_Witness ==
    \E i \in InvIds :
        /\ hasOnError
        /\ hs[i].st = "rejected"
        /\ hs[i].failedAt = 1
        /\ Len(hs[i].batch) = 2
        /\ Len(hs[i].issued) = 1
        /\ Len(ObservedBy(i)) = 1

\* C8: the remote calls of one handler invocation are issued in the order of
\* the input array, the j-th call for the j-th mutation, and at most one of
\* them is pending at any time: the pending call is the last one issued, all
\* earlier ones have resolved.
C8_SequentialInOrder ==
    \A i \in InvIds :
        /\ Cardinality(InFlightOf(i)) <= 1
        /\ Len(hs[i].issued) <= Len(hs[i].batch)
        /\ \A j \in 1..Len(hs[i].issued) :
              hs[i].issued[j] = RemoteCall(hs[i].kind, hs[i].batch[j])
        /\ \A c \in InFlightOf(i) : c.idx = Len(hs[i].issued)
        /\ (hs[i].st = "awaiting") <=> (InFlightOf(i) # {})
        /\ (hs[i].st = "resolved") => Len(hs[i].issued) = Len(hs[i].batch)

\* C8 witness: the first call of a batch of two different keys has resolved
\* and the second call is pending.
C8_Witness ==
    \E i \in InvIds :
        /\ Len(hs[i].batch) = 2
        /\ hs[i].batch[1].key # hs[i].batch[2].key
        /\ Len(hs[i].issued) = 2
        /\ InFlightOf(i) = {[inv |-> i, idx |-> 2]}

----------------------------------------------------------------------------
(* Order and bracketing of one reconciliation pass *)

\* the insert/update operations among the calls of the last step
Upserts(cs) == SelectSeq(Writes(cs), LAMBDA w : w.type # "delete")

\* the last step entered reconcileSnapshot
PassBegun ==
    /\ lastEv \in {"fetchOk", "subData"}
    /\ calls # <<>>

\* C11: inside one committed pass every delete is written before any insert
\* or update, and the inserts/updates carry the snapshot's items in the
\* snapshot's own iteration order.
C11_DeletesThenSnapshotOrder ==
    PassCommitted =>
        /\ \A i, j \in 1..Len(Writes(calls)) :
              (Writes(calls)[i].type = "delete" /\ Writes(calls)[j].type # "delete")
                  => i < j
        /\ Len(Upserts(calls)) = Len(SnapItems)
        /\ \A i \in 1..Len(SnapItems) : Upserts(calls)[i].value = SnapItems[i]

\* C11 witness: one pass wrote a delete followed by two inserts/updates for
\* two different snapshot items.
C11_Witness ==
    /\ PassCommitted
    /\ Len(Writes(calls)) = 3
    /\ Writes(calls)[1].type = "delete"
    /\ Len(SnapItems) = 2
    /\ SnapItems[1] # SnapItems[2]

\* C12: every pass calls begin first and once; when getKey accepts every
\* item, the writes follow and then exactly one commit, nothing being written
\* outside the bracket; when getKey throws, nothing is written, commit is not
\* called and the replica is as the pass found it.
C12_AtomicBracket ==
    PassBegun =>
        /\ calls[1] = Call("begin")
        /\ CountOf(calls, "begin") = 1
        /\ IF ReconcileThrows(preState, lastSnap)
           THEN /\ CountOf(calls, "commit") = 0
                /\ Writes(calls) = <<>>
                /\ state = preState
           ELSE \E n \in 2..Len(calls) :
                    /\ calls[n] = Call("commit")
                    /\ \A i \in 2..(n - 1) : calls[i].op = "write"
                    /\ \A i \in (n + 1)..Len(calls) :
                          calls[i].op \notin {"begin", "write", "commit"}
                    /\ n - 2 >= Len(SnapItems)

\* C12 witness: a delivery on whose snapshot getKey threw called begin and
\* nothing else, over a replica that held an item.
C12_Witness ==
    /\ lastEv = "subData"
    /\ ReconcileThrows(preState, lastSnap)
    /\ calls = <<Call("begin")>>
    /\ preState # <<>>
    /\ threw

----------------------------------------------------------------------------
(* Reconciliation and pending optimistic mutations *)

\* C13: while a local item has a pending optimistic mutation, a pass over a
\* snapshot that lacks the item's key writes no delete for it.
C13_NoDeleteWhilePending ==
    PassBegun =>
        \A i \in 1..Len(Writes(calls)) :
            Writes(calls)[i].type = "delete"
                => GetKey(Writes(calls)[i].value) \notin pending

----------------------------------------------------------------------------
(* The cleanup function *)

\* C14: every call of the cleanup function calls unsubscribe exactly once
\* and nothing else, and the call throws exactly when unsubscribe threw: the
\* exception is not suppressed.
C14_CleanupUnsubscribesOnce ==
    lastEv = "cleanup" =>
        /\ calls = <<Call("unsubscribe")>>
        /\ CountOf(calls, "unsubscribe") = 1
        /\ nUnsub >= 1
        /\ threw <=> (lastErr = UnsubErr)

\* C14 witness: on a ready session cleanup called unsubscribe, which threw,
\* and the exception reached the caller.
C14_Witness ==
    /\ lastEv = "cleanup"
    /\ isReady
    /\ nUnsub = 1
    /\ lastErr = UnsubErr
    /\ threw

\* the session was ready when the last step began
WasReady == nMarkReady - CountOf(calls, "markReady") >= 1

\* C15 as stated: the data of a fetch that resolves after cleanup has run is
\* reconciled into the replica.
C15_FetchAfterCleanupReconciled ==
    (lastEv = "fetchOk" /\ nUnsub >= 1 /\ ~ReconcileThrows(preState, lastSnap)) =>
        /\ PassCommitted
        /\ KeySet(state) = KeySet(SnapItems)

\* C15 amended: cleanup does not cancel the fetch; a fetch that resolves
\* after cleanup has run is handled as without cleanup: dropped when the
\* session was already ready, otherwise reconciled into the replica in one
\* begin ... commit pass that makes the session ready.
C15_FetchAfterCleanupAsBefore ==
    (lastEv = "fetchOk" /\ nUnsub >= 1) =>
        IF WasReady
        THEN calls = <<>> /\ state = preState
        ELSE /\ CountOf(calls, "begin") = 1
             /\ ~ReconcileThrows(preState, lastSnap) =>
                   /\ PassCommitted
                   /\ KeySet(state) = KeySet(SnapItems)
                   /\ CountOf(calls, "markReady") = 1
                   /\ isReady

\* C15 witness: cleanup ran while the fetch was pending and nothing had been
\* delivered; the fetch then resolved and its items went into the replica.
C15_Witness ==
    /\ lastEv = "fetchOk"
    /\ nUnsub = 1
    /\ nData = 0
    /\ PassCommitted
    /\ preState = <<>>
    /\ state # <<>>

----------------------------------------------------------------------------
(* Outcome of a mutation handler *)

\* C16: the promise of a handler invocation is rejected if and only if one
\* of its remote calls failed; once every remote call of the batch has
\* succeeded (at once for the empty batch) the promise is resolved, all N
\* calls were issued and the observer was not called for the invocation.
C16_RejectsIffRemoteFailed ==
    \A i \in InvIds :
        /\ (hs[i].st = "rejected") <=> (hs[i].failedAt # 0)
        /\ (hs[i].st # "idle" /\ hs[i].failedAt = 0 /\ InFlightOf(i) = {})
              => hs[i].st = "resolved"
        /\ hs[i].st = "resolved" =>
              /\ Len(hs[i].issued) = Len(hs[i].batch)
              /\ InFlightOf(i) = {}
              /\ ObservedBy(i) = <<>>
              /\ hs[i].err = "-"

\* C16 witness: with an observer configured, one invocation resolved after
\* both calls of its batch succeeded and another resolved on the empty batch.
C16_Witness ==
    /\ hasOnError
    /\ \E i, j \in InvIds :
          /\ hs[i].st = "resolved"
          /\ Len(hs[i].batch) = 2
          /\ Len(hs[i].issued) = 2
          /\ hs[j].st = "resolved"
          /\ hs[j].batch = <<>>
    /\ mutObs = <<>>

----------------------------------------------------------------------------
(* The observer, getKey failures, and handlers next to the session *)

\* invocations whose promise has been rejected
RejectedInvs == {i \in InvIds : hs[i].st = "rejected"}

\* fault events so far: a rejected fetch, subscription error deliveries,
\* failed mutation batches
FaultEvents ==
    (IF fetchSt = "rejected" THEN 1 ELSE 0) + nSubErr + Cardinality(RejectedInvs)

\* C17: the observer, when configured, has been called exactly once per
\* fault event (fetch rejection, subscription error delivery, failed mutation
\* batch) and for no other event.
C17_ObserverOncePerFault ==
    nOnError + Len(mutObs) = (IF hasOnError THEN FaultEvents ELSE 0)

\* C18: when getKey fails during a pass, on the fetch path or on the
\* subscription path, the observer is not called and the exception reaches
\* the caller that triggered the pass.
C18_GetKeyFailurePropagates ==
    (PassBegun /\ ReconcileThrows(preState, lastSnap)) =>
        /\ CountOf(calls, "onError") = 0
        /\ threw

\* the last step belonged to a mutation handler
HandlerStep == lastEv \in {"invoke", "remoteOk", "remoteErr"}

\* C19: a step of a mutation handler, successful or not, calls none of begin,
\* write, commit, markReady and leaves replica, readiness and the rest of the
\* session as they were, whatever state the session is in; it only issues
\* remote calls and notifies the observer at most once per invocation.
C19_HandlersLeaveSessionAlone ==
    /\ [](/\ HandlerStep => (calls = <<>> /\ state = preState /\ ~threw)
          /\ \A i \in InvIds : Len(ObservedBy(i)) <= 1)
    /\ [][hs' # hs =>
            /\ UNCHANGED <<pc, state, isReady, fetchSt, nMarkReady, nOnError,
                           nBegin, nCommit, nData, nSubErr, nUnsub>>
            /\ Len(mutObs') <= Len(mutObs) + 1]_vars

\* C19 witness: on a ready session with a filled replica, after cleanup, a
\* remote call of a handler failed and the observer was told once.
C19_Witness ==
    /\ hasOnError
    /\ lastEv = "remoteErr"
    /\ nUnsub = 1
    /\ isReady
    /\ state # <<>>
    /\ hs[1].st = "rejected"
    /\ Len(mutObs) = 1

----------------------------------------------------------------------------
(* One pass per delivery *)

\* C20 as stated: every subscription data delivery, in whatever session
\* state, calls begin once and commit once.
C20_OnePassPerDelivery ==
    lastEv = "subData" =>
        /\ CountOf(calls, "begin") = 1
        /\ CountOf(calls, "commit") = 1

\* C20 amended: every subscription data delivery, before or after readiness
\* and after cleanup, calls begin exactly once, and commit exactly once
\* unless getKey throws, when commit is not called; a fetch that resolves
\* before any delivery makes the first pass, so that with N deliveries after
\* it and no getKey failure begin and commit have each been called N + 1
\* times.
C20_OneBeginPerDelivery ==
    /\ [](/\ lastEv = "subData" =>
               /\ CountOf(calls, "begin") = 1
               /\ CountOf(calls, "commit") =
                     (IF ReconcileThrows(preState, lastSnap) THEN 0 ELSE 1)
          /\ nData <= nBegin /\ nBegin <= nData + 1
          /\ nCommit <= nBegin
          /\ (nBegin = nData + 1) => fetchSt = "resolved")
    /\ [][/\ DataDelivered =>
               /\ nBegin' = nBegin + 1
               /\ nCommit' = nCommit +
                     (IF ReconcileThrows(state, lastSnap') THEN 0 ELSE 1)
          /\ (FetchResolves /\ nData = 0 /\ ~ReconcileThrows(state, lastSnap')) =>
               /\ nBegin' = 1
               /\ nCommit' = 1]_vars

\* C20 witness: the fetch resolved first, cleanup ran, and the second of two
\* deliveries has just been reconciled: three begins, three commits.
C20_Witness ==
    /\ lastEv = "subData"
    /\ fetchSt = "resolved"
    /\ nUnsub = 1
    /\ nData = 2
    /\ nBegin = 3
    /\ nCommit = 3

----------------------------------------------------------------------------
(* Arguments of the forwarded remote calls *)

\* the decimal strings of the keys used in the batches
Decimal(k) == IF k = 1 THEN "1" ELSE IF k = 12 THEN "12" ELSE "?"

\* C21: the j-th remote call of an invocation carries the collection name of
\* the query; update carries the key as its decimal string and the partial
\* changes, delete carries the key as its decimal string and no data, insert
\* carries the full modified item unchanged.
C21_ForwardedArguments ==
    \A i \in InvIds :
        \A j \in 1..Len(hs[i].issued) :
            LET c == hs[i].issued[j]
                m == hs[i].batch[j]
            IN /\ c.op = hs[i].kind
               /\ c.ns = "todos"
               /\ hs[i].kind = "update" => (c.id = Decimal(m.key) /\ c.data = m.changes)
               /\ hs[i].kind = "delete" => (c.id = Decimal(m.key) /\ c.data = NoData)
               /\ hs[i].kind = "insert" => (c.id = "-" /\ c.data = m.modified)

\* C21 witness: an update of the two-digit key 12 was sent under the id "12"
\* and a delete of key 1 under the id "1".
C21_Witness ==
    \E i, j \in InvIds :
        /\ hs[i].kind = "update"
        /\ Len(hs[i].issued) >= 1
        /\ hs[i].batch[1].key = 12
        /\ hs[i].issued[1].id = "12"
        /\ hs[j].kind = "delete"
        /\ Len(hs[j].issued) >= 1
        /\ hs[j].issued[1].id = "1"

----------------------------------------------------------------------------
(* Determinism of reconcileSnapshot *)

\* the begin/write/commit calls among the calls of a step
PassCalls(cs) == SelectSeq(cs, LAMBDA c : c.op \in {"begin", "write", "commit"})

\* the last step of the session in focus and the last step of the other
\* session were passes over equal replica contents and equal snapshots
SameInputs ==
    /\ PassBegun
    /\ other.lastEv \in {"fetchOk", "subData"}
    /\ other.calls # <<>>
    /\ other.preState = preState
    /\ other.lastSnap = lastSnap

----------------------------------------------------------------------------
(* Size of the batch written by one pass *)

\* C23 as stated: one pass writes at most |localKeys| + |remoteKeys|
\* operations.
C23_AtMostLocalPlusRemoteKeys ==
    PassCommitted =>
        Len(Writes(calls)) <=
            Cardinality(KeySet(preState)) + Cardinality(KeySet(SnapItems))

\* C23 amended: one pass writes as many operations as there are local keys
\* absent from the snapshot plus snapshot items, hence at most |localKeys|
\* plus the number of snapshot items, which is |localKeys| + |remoteKeys|
\* when the snapshot's keys are pairwise distinct.
C23_BatchSize ==
    PassCommitted =>
        /\ Len(Writes(calls)) =
              Cardinality(KeySet(preState) \ KeySet(SnapItems)) + Len(SnapItems)
        /\ Len(Writes(calls)) <= Cardinality(KeySet(preState)) + Len(SnapItems)
        /\ DistinctKeys(SnapItems) =>
              Len(Writes(calls)) <=
                  Cardinality(KeySet(preState)) + Cardinality(KeySet(SnapItems))

\* C23 witness: a snapshot of two items of different keys went into the
\* empty replica as two inserts.
C23_Witness ==
    /\ PassCommitted
    /\ preState = <<>>
    /\ Len(SnapItems) = 2
    /\ DistinctKeys(SnapItems)
    /\ Len(Writes(calls)) = 2
    /\ WriteTypes(calls) = {"insert"}

----------------------------------------------------------------------------
(* Without an observer *)

\* C24: with no onError configured, a failed mutation batch still rejects
\* with the remote's own error, and a rejected fetch or a subscription error
\* calls nothing, throws nothing and leaves replica and session as they were,
\* the session still running.
C24_NoObserver ==
    ~hasOnError =>
        /\ \A i \in InvIds :
              hs[i].st = "rejected" =>
                  (hs[i].err = hs[i].remoteErr /\ hs[i].err \in Errors)
        /\ mutObs = <<>>
        /\ nOnError = 0
        /\ lastEv \in {"fetchErr", "subErr"} =>
              /\ calls = <<>>
              /\ ~threw
              /\ pc = "running"
              /\ state = preState
              /\ isReady <=> (nMarkReady = 1)

\* C24 witness: without observer the fetch was rejected, the subscription
\* reported an error, a mutation batch was rejected, and a snapshot delivered
\* afterwards was reconciled.
C24_Witness ==
    /\ ~hasOnError
    /\ fetchSt = "rejected"
    /\ nSubErr = 1
    /\ hs[1].st = "rejected"
    /\ hs[1].err \in Errors
    /\ lastEv = "subData"
    /\ PassCommitted
    /\ state # <<>>

----------------------------------------------------------------------------
(* Passthrough options and precedence of the adapter *)

\* C25: createCollection receives every passthrough option of the caller
\* unchanged, the adapter's getKey, sync, onInsert, onUpdate and onDelete
\* whatever the caller supplied under these names, and nothing else.
C25_PassthroughAndPrecedence ==
    DOMAIN made.config # {} =>
        /\ \A f \in DOMAIN made.options \ (OwnFields \cup AdapterFields) :
              f \in DOMAIN made.config /\ made.config[f] = made.options[f]
        /\ made.config["getKey"] = made.options["getKey"]
        /\ made.config["sync"] = "adapterSync"
        /\ made.config["onInsert"] = "adapterOnInsert"
        /\ made.config["onUpdate"] = "adapterOnUpdate"
        /\ made.config["onDelete"] = "adapterOnDelete"
        /\ DOMAIN made.config = (DOMAIN made.options \ OwnFields) \cup AdapterFields

\* C25 witness: the caller supplied id, rowUpdateMode and a sync and an
\* onInsert of its own; id and rowUpdateMode arrived, sync and onInsert are
\* the adapter's.
C25_Witness ==
    /\ DOMAIN made.config # {}
    /\ {"id", "rowUpdateMode", "sync", "onInsert"} \subseteq DOMAIN made.options
    /\ made.options["sync"] = "userSync"
    /\ made.config["id"] = "todos-1"
    /\ made.config["rowUpdateMode"] = "full"
    /\ made.config["sync"] = "adapterSync"

----------------------------------------------------------------------------
(* Passes do not interleave *)

\* the begin, commit and markReady calls among the calls of a step
Brackets(cs) == SelectSeq(cs, LAMBDA c : c.op \in {"begin", "commit", "markReady"})

\* C26: every handler runs its pass to completion: the begin, commit and
\* markReady calls of a step are begin alone (getKey threw), begin commit, or
\* begin commit markReady, every write lies between the begin and the commit,
\* and the session has never committed more often than begun; no step of
\* another handler falls between a begin and its commit.
C26_PassesDoNotInterleave ==
    /\ Brackets(calls) \in {<<>>, <<Call("begin")>>,
                            <<Call("begin"), Call("commit")>>,
                            <<Call("begin"), Call("commit"), Call("markReady")>>}
    /\ \A i \in 1..Len(calls) :
          calls[i].op = "write" =>
              /\ \E j \in 1..(i - 1) : calls[j].op = "begin"
              /\ \E j \in (i + 1)..Len(calls) : calls[j].op = "commit"
    /\ nCommit <= nBegin

\* C26 witness: the fetch resolved first and the delivery after it has just
\* written a batch of two operations between its begin and commit.
C26_Witness ==
    /\ lastEv = "subData"
    /\ nData = 1
    /\ nBegin = 2
    /\ nCommit = 2
    /\ Len(calls) = 4
    /\ calls[1] = Call("begin")
    /\ calls[4] = Call("commit")

----------------------------------------------------------------------------
(* The transition to readiness *)

\* C27: markReady is called only in the step of the first pass that commits,
\* from the fetch or from the subscription, and that pass calls it; a fetch
\* rejection, a subscription error, a pass aborted by getKey, a step of a
\* mutation handler and cleanup neither call it nor change readiness.
C27_ReadyOnFirstPassOnly ==
    /\ isReady <=> (nMarkReady = 1)
    /\ CountOf(calls, "markReady") > 0 =>
          /\ PassCommitted
          /\ CountOf(calls, "markReady") = 1
          /\ calls[Len(calls)] = Call("markReady")
          /\ ~WasReady
    /\ PassCommitted => (isReady /\ (WasReady \/ CountOf(calls, "markReady") = 1))
    /\ ~PassCommitted => (isReady <=> WasReady)

\* C27 witness: fetch rejection, subscription error, a failed mutation batch
\* and cleanup all happened without making the session ready; the first
\* delivery reconciled afterwards did.
C27_Witness ==
    /\ fetchSt = "rejected"
    /\ nSubErr = 1
    /\ nUnsub = 1
    /\ hs[1].st = "rejected"
    /\ lastEv = "subData"
    /\ nData = 1
    /\ nBegin = 1
    /\ CountOf(calls, "markReady") = 1
    /\ isReady

----------------------------------------------------------------------------
(* Starting a session *)

\* C28: the call of sync issues one fetch and then one subscribe before it
\* returns; no later step issues either again, in particular not the step
\* handling a rejected fetch, whose rejection can only arrive once the
\* subscription exists.
C28_OneFetchOneSubscribe ==
    /\ lastEv = "start" =>
          (calls = <<Call("fetch"), Call("subscribe")>> /\ ~threw)
    /\ lastEv # "start" =>
          (CountOf(calls, "fetch") = 0 /\ CountOf(calls, "subscribe") = 0)
    /\ (pc = "init") <=> (fetchSt = "none")
    /\ pc = "init" => (lastEv = "none" /\ nData = 0)
    /\ fetchSt = "rejected" => pc = "running"
    /\ lastEv = "fetchErr" => fetchSt = "rejected"

\* C28 witness: the fetch was rejected and the subscription, set up all the
\* same, has delivered two snapshots since.
C28_Witness ==
    /\ fetchSt = "rejected"
    /\ lastEv = "subData"
    /\ nData = 2
    /\ nSubErr = 0
    /\ state # <<>>

----------------------------------------------------------------------------
(* Two sessions *)

\* C29: each session has its own readiness flag and its own unsubscribe
\* function: in both sessions the flag is set exactly when that session's
\* markReady has been called, which happens with its own first committed
\* pass; a handler of one session, its cleanup included, leaves the other
\* session as it was, and cleanup calls the unsubscribe function of its own
\* session once.
C29_SessionsIndependent ==
    /\ [](/\ isReady <=> (nMarkReady = 1)
          /\ other.isReady <=> (other.nMarkReady = 1)
          /\ PassCommitted => isReady
          /\ (other.lastEv \in {"fetchOk", "subData"}
                /\ CountOf(other.calls, "commit") = 1) => other.isReady)
    /\ [][\/ other' = other /\ Focused' # Focused
          \/ other' = Focused /\ Focused' = other]_vars
    /\ [][nUnsub' + other'.nUnsub # nUnsub + other.nUnsub =>
             /\ other' = other
             /\ nUnsub' = nUnsub + 1
             /\ calls' = <<Call("unsubscribe")>>]_vars

\* C29 witness: one session was cleaned up before any data arrived and is
\* still not ready; the other, not cleaned up, has just become ready with
\* its first delivery.
C29_Witness ==
    /\ other.pc = "running"
    /\ ~other.isReady
    /\ other.nUnsub = 1
    /\ other.nMarkReady = 0
    /\ lastEv = "subData"
    /\ isReady
    /\ nMarkReady = 1
    /\ nUnsub = 0

----------------------------------------------------------------------------
(* Concurrent handler invocations *)

\* C30: handler invocations do not wait for each other: an invocation that
\* has not settled always has its own call pending, whatever calls of other
\* invocations are pending; it issues the calls of its own batch in array
\* order, and a step of one invocation leaves every other invocation and its
\* pending call as they were.
C30_InvocationsIndependent ==
    /\ [](\A i \in InvIds :
            /\ hs[i].st = "awaiting" => InFlightOf(i) = {[inv |-> i, idx |-> Len(hs[i].issued)]}
            /\ hs[i].st # "awaiting" => InFlightOf(i) = {}
            /\ \A j \in 1..Len(hs[i].issued) :
                  hs[i].issued[j] = RemoteCall(hs[i].kind, hs[i].batch[j]))
    /\ [][\A i, j \in InvIds :
             (i # j /\ hs'[i] # hs[i]) =>
                 /\ hs'[j] = hs[j]
                 /\ InFlightOf(j)' = InFlightOf(j)]_vars

\* C30 witness: an insert and a delete are in progress at once, both with a
\* remote call pending, the delete already at the second call of its batch.
C30_Witness ==
    \E i, j \in InvIds :
        /\ hs[i].kind = "insert"
        /\ hs[j].kind = "delete"
        /\ hs[i].st = "awaiting"
        /\ hs[j].st = "awaiting"
        /\ Len(hs[i].issued) = 1
        /\ Len(hs[j].issued) = 2
        /\ Cardinality(inflight) = 2

----------------------------------------------------------------------------
(* Sessions outstanding at once *)

\* a session whose subscription exists and has not been released
Outstanding(s) == s.pc = "running" /\ s.nUnsub = 0

\* C31 as stated: at most one session of the same client and query is
\* outstanding at any time.
C31_AtMostOneOutstanding ==
    ~(Outstanding(Focused) /\ Outstanding(other))

\* C31 amended: every call of sync starts a session of its own with one
\* fetch and one subscription, whether or not another session of the same
\* client and query is outstanding; only sessions that were started are
\* ever cleaned up.
C31_OneSessionPerSyncCall ==
    /\ pc = "init" =>
          ENABLED (Start /\ UNCHANGED <<hasOnError, mutVars, auxVars>>)
    /\ \A s \in {Focused, other} :
          /\ s.lastEv = "start" => s.calls = <<Call("fetch"), Call("subscribe")>>
          /\ s.lastEv # "start" => CountOf(s.calls, "subscribe") = 0
          /\ s.nUnsub > 0 => s.pc = "running"

\* C31 witness: two sessions of the same client and query hold a
\* subscription each, the second started while the first had already
\* received data.
C31_Witness ==
    /\ Outstanding(Focused)
    /\ Outstanding(other)
    /\ lastEv = "start"
    /\ other.nData > 0

----------------------------------------------------------------------------
(* Readiness follows data *)

\* C32: markReady is never called before a commit: the session has committed
\* at least once whenever markReady has been called, and the step that calls
\* markReady calls it directly after the commit of its own pass, as its last
\* call.
C32_ReadyAfterCommit ==
    /\ nMarkReady > 0 => nCommit > 0
    /\ \A i \in 1..Len(calls) :
          calls[i].op = "markReady" =>
              /\ i > 1
              /\ calls[i - 1] = Call("commit")
              /\ i = Len(calls)
              /\ calls[1] = Call("begin")

\* C32 witness: the first pass was aborted by getKey after its begin and
\* signalled nothing; the delivery after it committed and then called
\* markReady.
C32_Witness ==
    /\ nBegin = 2
    /\ nCommit = 1
    /\ nMarkReady = 1
    /\ Len(calls) >= 3
    /\ calls[Len(calls)] = Call("markReady")
    /\ calls[Len(calls) - 1] = Call("commit")

----------------------------------------------------------------------------
(* The late fetch cannot revert the replica *)

\* C33 as stated: once the subscription has delivered a snapshot, a fetch
\* that resolves later performs no begin, write or commit.
C33_NoPassAfterDelivery ==
    (lastEv = "fetchOk" /\ nData >= 1) =>
        (PassCalls(calls) = <<>> /\ state = preState)

\* C33 amended: once a delivery of the subscription has been reconciled, a
\* fetch that resolves later performs no begin, write or commit and leaves
\* the replica alone; the replica changes only in committed passes, and the
\* fetch commits one only while nothing has been reconciled yet, so after a
\* reconciled delivery every change of the replica is a delivery's whose
\* keys it then holds. A delivery aborted by getKey does not count: the
\* fetch resolving behind it is still reconciled.
C33_NoRevertOnceReconciled ==
    /\ (lastEv = "fetchOk" /\ WasReady) =>
          /\ nData >= 1
          /\ calls = <<>>
          /\ state = preState
    /\ (lastEv = "fetchOk" /\ ~WasReady) => PassBegun
    /\ state # preState =>
          /\ PassCommitted
          /\ lastEv = "fetchOk" => ~WasReady
    /\ (PassCommitted /\ WasReady) =>
          (lastEv = "subData" /\ KeySet(state) = KeySet(SnapItems))

\* C33 witness: the delivery put key 1 into the replica, the fetch resolved
\* afterwards with key 2 only and was dropped: the replica still holds
\* key 1.
C33_Witness ==
    /\ lastEv = "fetchOk"
    /\ nData >= 1
    /\ WasReady
    /\ KeySet(SnapItems) = {2}
    /\ KeySet(state) = {1}
    /\ calls = <<>>

----------------------------------------------------------------------------
(* A pass aborted by getKey *)

\* the last step ran a pass in which getKey threw
PassAborted ==
    /\ PassBegun
    /\ ReconcileThrows(preState, lastSnap)

\* C34: a pass in which getKey fails calls begin, then nothing of write or
\* commit, and leaves the replica as it was; getKey fails before the first
\* write wherever the item sits in the snapshot. Every later pass calls
\* begin again although that begin was never matched, so the session's
\* begins exceed its commits from then on.
C34_AbortBeforeFirstWrite ==
    /\ PassAborted =>
          /\ PassCalls(calls) = <<Call("begin")>>
          /\ calls[1] = Call("begin")
          /\ state = preState
          /\ nBegin > nCommit
    /\ PassBegun =>
          /\ CountOf(calls, "begin") = 1
          /\ ~PassAborted => PassCommitted
    /\ lastEv = "subData" => PassBegun

\* C34 witness: a delivery of a good item followed by one getKey fails on
\* was aborted after its begin; the next pass began over the unmatched
\* begin and was aborted too, leaving two begins unmatched and the replica
\* empty.
C34_Witness ==
    /\ PassAborted
    /\ lastEv = "subData"
    /\ Len(SnapItems) = 2
    /\ ~GetKeyThrows(SnapItems[1])
    /\ nBegin = 2
    /\ nCommit = 0
    /\ state = <<>>

----------------------------------------------------------------------------
(* getKey failing on the fetch result *)

\* C35: when getKey throws while the fetch result is reconciled, the handler
\* lets nothing escape: after the begin it calls only the observer, if one is
\* configured, with the exception; markReady is not called and the session
\* is not ready. As long as no pass has committed the session stays not
\* ready, and the first delivery reconciled afterwards calls markReady once.
C35_FetchPassThrows ==
    /\ (lastEv = "fetchOk" /\ PassAborted) =>
          /\ calls = <<Call("begin")>> \o ObserverOnly(KeyErr)
          /\ ~threw
          /\ ~isReady
          /\ nMarkReady = 0
          /\ fetchSt = "resolved"
    /\ nCommit = 0 => (~isReady /\ nMarkReady = 0)
    /\ (lastEv = "subData" /\ PassCommitted /\ nCommit = 1) =>
          /\ CountOf(calls, "markReady") = 1
          /\ isReady
          /\ nMarkReady = 1

\* C35 witness: the fetch result held an item getKey fails on, the observer
\* was told, and the delivery after it was reconciled and signalled
\* readiness, once.
C35_Witness ==
    /\ hasOnError
    /\ fetchSt = "resolved"
    /\ nSubErr = 0
    /\ nOnError = 1
    /\ nData = 1
    /\ nBegin = 2
    /\ nCommit = 1
    /\ lastEv = "subData"
    /\ state # <<>>
    /\ nMarkReady = 1
    /\ isReady

----------------------------------------------------------------------------
(* Fixed point of reconciliation *)

\* the last step committed a pass over a replica that already held exactly
\* the keys of the snapshot
AtFixedPoint ==
    /\ PassCommitted
    /\ KeySet(preState) = KeySet(SnapItems)

\* C36 as stated: at the fixed point the pass writes no insert and no
\* delete, exactly one update per key of the snapshot, and the replica's
\* key set stays as it was.
C36_OneUpdatePerKey ==
    AtFixedPoint =>
        /\ WriteTypes(calls) \subseteq {"update"}
        /\ \A k \in KeySet(SnapItems) : Len(OpsFor(calls, k)) = 1
        /\ KeySet(state) = KeySet(preState)

\* C36 amended: at the fixed point the pass writes no insert and no delete
\* but one update per item of the snapshot, in the snapshot's order, which
\* is one update per key when the snapshot's keys are pairwise distinct; the
\* replica keeps its key set and its length.
C36_FixedPoint ==
    AtFixedPoint =>
        /\ WriteTypes(calls) \subseteq {"update"}
        /\ Len(Writes(calls)) = Len(SnapItems)
        /\ \A i \in 1..Len(SnapItems) : Writes(calls)[i].value = SnapItems[i]
        /\ \A k \in KeySet(SnapItems) :
              Len(OpsFor(calls, k)) = Len(ItemsFor(SnapItems, k))
        /\ DistinctKeys(SnapItems) =>
              \A k \in KeySet(SnapItems) : Len(OpsFor(calls, k)) = 1
        /\ KeySet(state) = KeySet(preState)
        /\ Len(state) = Len(preState)

\* C36 witness: the replica held exactly the two items of the snapshot, as
\* the delivery before had left them; the second delivery wrote two updates
\* and the replica is as before.
C36_Witness ==
    /\ AtFixedPoint
    /\ lastEv = "subData"
    /\ nData = 2
    /\ preState = SnapItems
    /\ Len(SnapItems) = 2
    /\ DistinctKeys(SnapItems)
    /\ Len(Writes(calls)) = 2
    /\ state = preState

----------------------------------------------------------------------------
(* The null snapshot *)

\* the last step ran a pass over a null or undefined result
NullPass ==
    /\ PassBegun
    /\ lastSnap.null

\* C37: a pass over a null or undefined result is the pass over the empty
\* snapshot: begin, one delete per local key carrying the local item, no
\* insert or update, commit; the replica ends empty, and the step makes the
\* session ready, calling markReady after the commit if it was not ready.
C37_NullIsEmpty ==
    NullPass =>
        /\ PassCalls(calls)
              = ReconcileCalls(preState, [null |-> FALSE, items |-> <<>>])
        /\ calls[1] = Call("begin")
        /\ PassCommitted
        /\ WriteTypes(calls) \subseteq {"delete"}
        /\ Len(Writes(calls)) = Cardinality(KeySet(preState))
        /\ \A k \in KeySet(preState) :
              /\ Len(OpsFor(calls, k)) = 1
              /\ OpsFor(calls, k)[1].value = Find(preState, k)
        /\ state = <<>>
        /\ ~threw
        /\ isReady
        /\ CountOf(calls, "markReady") = (IF WasReady THEN 0 ELSE 1)

\* C37 witness: the replica held two keys when the subscription delivered
\* null: two deletes were written between begin and commit and the replica
\* is empty.
C37_Witness ==
    /\ NullPass
    /\ lastEv = "subData"
    /\ Cardinality(KeySet(preState)) = 2
    /\ Len(Writes(calls)) = 2
    /\ WriteTypes(calls) = {"delete"}
    /\ state = <<>>

----------------------------------------------------------------------------
(* Frame of cleanup *)

\* C38: the cleanup function calls unsubscribe and nothing else, whether or
\* not unsubscribe throws: replica and readiness are as before. It cancels
\* nothing: when the fetch of a session cleaned up before it was ready
\* resolves with a result getKey accepts, the result is reconciled and
\* markReady is called.
C38_CleanupOnlyUnsubscribes ==
    /\ lastEv = "cleanup" =>
          /\ calls = <<Call("unsubscribe")>>
          /\ state = preState
          /\ isReady <=> WasReady
          /\ pc = "running"
          /\ nUnsub >= 1
    /\ (isReady /\ CountOf(calls, "markReady") = 0) => WasReady
    /\ (lastEv = "fetchOk" /\ nUnsub >= 1 /\ ~WasReady /\ ~PassAborted) =>
          /\ PassCommitted
          /\ calls[Len(calls)] = Call("markReady")
          /\ isReady

\* C38 witness: cleanup ran before any data had arrived; the fetch resolved
\* afterwards, was reconciled into the replica and markReady was called.
C38_Witness ==
    /\ nUnsub = 1
    /\ nData = 0
    /\ lastEv = "fetchOk"
    /\ PassCommitted
    /\ state # <<>>
    /\ CountOf(calls, "markReady") = 1
    /\ nMarkReady = 1
    /\ isReady

====
